---- MODULE Spec2Model ----
(***************************************************************************)
(* Model of the alumni registration and login screens:                     *)
(*   src/app/components/RegisterForm.tsx  (ProofUpload, RegisterForm)      *)
(*   src/app/components/loginPage.tsx     (LoginForm)                      *)
(* Every handler is one action; an async handler is two actions, the part  *)
(* before its await and the continuation that runs when the awaited call   *)
(* settles.  One instance of each component is modelled from its mount.    *)
(***************************************************************************)
EXTENDS Integers, Sequences, FiniteSets, TLC

VARIABLES
  filePreviewUrl,   \* ProofUpload: useState<string | null>(null)
  type,             \* ProofUpload: useState<string | undefined>(undefined)
  uploading,        \* UploadButton widget: an upload has begun and not settled
  submitted,        \* RegisterForm: useState(false)
  proofUrl,         \* RegisterForm: useState<string | null>(null)
  loadingUpload,    \* RegisterForm: useState(false)
  form,             \* RegisterForm: the values held by useForm
  regCalls,         \* axios.post("/api/auth") calls awaiting their response
  regRouter,        \* RegisterForm: the path given to router.push, or Null
  loginForm,        \* LoginForm: the values held by useForm
  loginCalls,       \* signIn("credentials") calls awaiting their result
  loginRouter,      \* LoginForm: the path given to router.push, or Null
  toasts,           \* the notifications the last handler step emitted, in order
  openToasts,       \* ids of loading notifications not yet dismissed
  nextId,           \* the id the next toast.loading() returns
  onUploadedArgs,   \* the arguments of the onUploaded calls of the last handler step
  uploadedUrls,     \* history: URLs reported to the parent by a successful upload
  event             \* the handler step that produced the current state

vars == <<filePreviewUrl, type, uploading, submitted, proofUrl, loadingUpload,
          form, regCalls, regRouter, loginForm, loginCalls, loginRouter,
          toasts, openToasts, nextId, onUploadedArgs, uploadedUrls, event>>

uploadVars == <<filePreviewUrl, type, uploading, loadingUpload>>
loginVars  == <<loginForm, loginCalls, loginRouter>>

\* The number of submissions (toast.loading calls) a behaviour may make.
MaxCalls == 2

-----------------------------------------------------------------------------
(* JavaScript values.  A value is a record tagged with its typeof.         *)

Undefined == [t |-> "undefined"]
Null      == [t |-> "null"]
Str(s)    == [t |-> "string", v |-> s]
Num(n)    == [t |-> "number", v |-> n]
\* A function taking no arguments: it returns ret, or throws.
Fn(ret)   == [t |-> "function", throws |-> FALSE, ret |-> ret]
FnThrows  == [t |-> "function", throws |-> TRUE, ret |-> Undefined]

TypeOf(x) == IF x.t = "null" THEN "object" ELSE x.t

\* ToBoolean: undefined, null, "" and 0 are falsy.
Truthy(x) ==
  CASE x.t = "undefined" -> FALSE
    [] x.t = "null"      -> FALSE
    [] x.t = "string"    -> x.v # ""
    [] x.t = "number"    -> x.v # 0
    [] OTHER             -> TRUE

\* String(x) for the values a url accessor returns here: undefined, null
\* or a string.
String(x) ==
  CASE x.t = "undefined" -> Str("undefined")
    [] x.t = "null"      -> Str("null")
    [] OTHER             -> x

\* A MIME type is a string kept as its sequence of characters, so that
\* startsWith is computed on the text.
ImagePng == <<"i","m","a","g","e","/","p","n","g">>
AppPdf   == <<"a","p","p","l","i","c","a","t","i","o","n","/","p","d","f">>
TextPlain == <<"t","e","x","t","/","p","l","a","i","n">>
ImagePrefix == <<"i","m","a","g","e","/">>

StartsWith(s, p) == Len(s) >= Len(p) /\ SubSeq(s, 1, Len(p)) = p

\* isImage = (mime?: string) => mime?.startsWith("image/")
isImage(mime) == mime.t = "string" /\ StartsWith(mime.v, ImagePrefix)
\* isPdf = (mime?: string) => mime === "application/pdf"
isPdf(mime) == mime.t = "string" /\ mime.v = AppPdf

\* The branch of the preview JSX that is rendered.
Preview ==
  IF ~Truthy(filePreviewUrl) THEN "uploadButton"
  ELSE IF isImage(type) THEN "image"
  ELSE IF isPdf(type) THEN "pdf"
  ELSE "link"

Toast(kind, text) == [kind |-> kind, text |-> text]

-----------------------------------------------------------------------------
(* Inputs.                                                                 *)

\* What the upload widget hands to onClientUploadComplete: the first element
\* of an array response, with the shapes the upload collaborator produces
\* (url as a string or as an accessor, ufsUrl) and some it should not.
UrlFields ==
  { Undefined, Str("https://legacy/file.png"), Num(5),
    Fn(Str("https://fn/file.png")), Fn(Undefined), FnThrows }
UfsUrlFields  == { Undefined, Str("https://x/file.png"), Str("") }
TypeFields    == { Undefined, Str(ImagePng), Str(AppPdf), Str(TextPlain) }
NameFields    == { Str("proof") }

Files ==
  [ t : {"object"}, url : UrlFields, ufsUrl : UfsUrlFields,
    type : TypeFields, name : NameFields ]

Array(items) == [t |-> "object", isArray |-> TRUE, items |-> items]
NotArray     == [t |-> "object", isArray |-> FALSE, items |-> <<>>]

UploadResponses ==
  { Undefined, Null, NotArray, Array(<<>>), Array(<<Null>>), Array(<<Undefined>>) }
    \cup { Array(<<f>>) : f \in Files }

IsArray(res) == res.t = "object" /\ res.isArray

File(url, ufsUrl, mime) ==
  [t |-> "object", url |-> url, ufsUrl |-> ufsUrl, type |-> mime, name |-> Str("proof")]

\* The responses tried while the whole registration screen is explored: no
\* response, an empty one, an image, a PDF in the legacy shape, and a file
\* without a URL.
SampleResponses ==
  { Undefined, Array(<<>>),
    Array(<<File(Undefined, Str("https://x/file.png"), Str(ImagePng))>>),
    Array(<<File(Str("https://legacy/file.png"), Undefined, Str(AppPdf))>>),
    Array(<<File(Undefined, Undefined, Str(TextPlain))>>) }

-----------------------------------------------------------------------------
(* ProofUpload                                                             *)

\* The parent's callback: onUploaded={(url) => setProofUrl(url)}
onUploaded(url) == proofUrl' = url /\ onUploadedArgs' = <<url>>

\* ExtractTry with the two string branches in the other order.
ExtractTry_UrlBeforeUfsUrl(first) ==
  LET maybeUrl == first.url IN
  IF TypeOf(maybeUrl) = "function"
    THEN IF maybeUrl.throws
           THEN [threw |-> TRUE, url |-> Undefined]
           ELSE [threw |-> FALSE, url |-> String(maybeUrl.ret)]
  ELSE IF TypeOf(maybeUrl) = "string"
    THEN [threw |-> FALSE, url |-> maybeUrl]
  ELSE IF TypeOf(first.ufsUrl) = "string"
    THEN [threw |-> FALSE, url |-> first.ufsUrl]
  ELSE [threw |-> FALSE, url |-> Undefined]

\* The try block of handleClientComplete: the url it assigns, or a throw.
ExtractTry(first) ==
  LET maybeUrl == first.url IN
  IF TypeOf(maybeUrl) = "function"
    THEN IF maybeUrl.throws
           THEN [threw |-> TRUE, url |-> Undefined]
           ELSE [threw |-> FALSE, url |-> String(maybeUrl.ret)]
  ELSE IF TypeOf(first.ufsUrl) = "string"
    THEN [threw |-> FALSE, url |-> first.ufsUrl]
  ELSE IF TypeOf(maybeUrl) = "string"
    THEN [threw |-> FALSE, url |-> maybeUrl]
  ELSE [threw |-> FALSE, url |-> Undefined]

\* The catch block: url is still undefined when it is entered.
ExtractCatch(first) ==
  LET url1 == IF TypeOf(first.ufsUrl) = "string" THEN first.ufsUrl ELSE Undefined
  IN  IF ~Truthy(url1) /\ TypeOf(first.url) = "string" THEN first.url ELSE url1

ExtractUrl(first) ==
  LET r == ExtractTry(first) IN IF r.threw THEN ExtractCatch(first) ELSE r.url

\* The registration page is still the current page: no router.push yet.
RegOnPage == regRouter = Null

\* onUploadBegin with the UploadButton rendered whatever the preview URL is.
onUploadBegin_AlwaysRendered ==
  /\ RegOnPage
  /\ ~uploading
  /\ uploading' = TRUE
  /\ loadingUpload' = TRUE
  /\ toasts' = <<>>
  /\ event' = [op |-> "onUploadBegin"]
  /\ onUploadedArgs' = <<>>
  /\ UNCHANGED <<filePreviewUrl, type, submitted, proofUrl, form, regCalls,
                 regRouter, openToasts, nextId, uploadedUrls>>
  /\ UNCHANGED loginVars

\* onUploadBegin={() => setLoadingUpload(true)}; the widget is rendered only
\* while there is no preview URL, and runs one upload at a time.
onUploadBegin ==
  /\ RegOnPage
  /\ ~Truthy(filePreviewUrl)
  /\ ~uploading
  /\ uploading' = TRUE
  /\ loadingUpload' = TRUE
  /\ toasts' = <<>>
  /\ event' = [op |-> "onUploadBegin"]
  /\ onUploadedArgs' = <<>>
  /\ UNCHANGED <<filePreviewUrl, type, submitted, proofUrl, form, regCalls,
                 regRouter, openToasts, nextId, uploadedUrls>>
  /\ UNCHANGED loginVars

handleClientComplete(res) ==
  /\ RegOnPage
  /\ uploading
  /\ uploading' = FALSE
  /\ loadingUpload' = FALSE
  /\ event' = [op |-> "handleClientComplete", res |-> res]
  /\ IF ~Truthy(res) \/ ~IsArray(res) \/ Len(res.items) = 0
       THEN /\ toasts' = <<Toast("error", "Upload failed: no response.")>>
            /\ onUploaded(Null)
            /\ UNCHANGED <<filePreviewUrl, type, uploadedUrls>>
     ELSE LET first == res.items[1] IN
       IF ~Truthy(first)
         THEN /\ toasts' = <<Toast("error", "Upload failed: invalid response shape.")>>
              /\ onUploaded(Null)
              /\ UNCHANGED <<filePreviewUrl, type, uploadedUrls>>
       ELSE LET url  == ExtractUrl(first)
                mime == IF TypeOf(first.type) = "string" THEN first.type ELSE Undefined
            IN /\ type' = mime
               /\ IF Truthy(url)
                    THEN /\ filePreviewUrl' = url
                         /\ onUploaded(url)
                         /\ toasts' = <<Toast("success", "File uploaded successfully!")>>
                         /\ uploadedUrls' = uploadedUrls \cup {url}
                    ELSE /\ toasts' = <<Toast("error", "Upload failed: no file URL returned.")>>
                         /\ onUploaded(Null)
                         /\ UNCHANGED <<filePreviewUrl, uploadedUrls>>
  /\ UNCHANGED <<submitted, form, regCalls, regRouter, openToasts, nextId>>
  /\ UNCHANGED loginVars

\* handleError without its onUploaded(null).
handleError_NoReport ==
  /\ RegOnPage
  /\ uploading
  /\ uploading' = FALSE
  /\ loadingUpload' = FALSE
  /\ toasts' = <<Toast("error", "Upload failed. Please try again.")>>
  /\ onUploadedArgs' = <<>>
  /\ event' = [op |-> "handleError"]
  /\ UNCHANGED <<filePreviewUrl, type, submitted, proofUrl, form, regCalls,
                 regRouter, openToasts, nextId, uploadedUrls>>
  /\ UNCHANGED loginVars

\* onUploadError
handleError ==
  /\ RegOnPage
  /\ uploading
  /\ uploading' = FALSE
  /\ loadingUpload' = FALSE
  /\ toasts' = <<Toast("error", "Upload failed. Please try again.")>>
  /\ onUploaded(Null)
  /\ event' = [op |-> "handleError"]
  /\ UNCHANGED <<filePreviewUrl, type, submitted, form, regCalls, regRouter,
                 openToasts, nextId, uploadedUrls>>
  /\ UNCHANGED loginVars

\* removeFile without its onUploaded(null).
removeFile_NoReport ==
  /\ RegOnPage
  /\ Truthy(filePreviewUrl)
  /\ filePreviewUrl' = Null
  /\ type' = Undefined
  /\ onUploadedArgs' = <<>>
  /\ toasts' = <<Toast("blank", "File removed")>>
  /\ event' = [op |-> "removeFile"]
  /\ UNCHANGED <<uploading, loadingUpload, submitted, proofUrl, form, regCalls,
                 regRouter, openToasts, nextId, uploadedUrls>>
  /\ UNCHANGED loginVars

\* The "Remove File" button is rendered only while there is a preview URL.
removeFile ==
  /\ RegOnPage
  /\ Truthy(filePreviewUrl)
  /\ filePreviewUrl' = Null
  /\ type' = Undefined
  /\ onUploaded(Null)
  /\ toasts' = <<Toast("blank", "File removed")>>
  /\ event' = [op |-> "removeFile"]
  /\ UNCHANGED <<uploading, loadingUpload, submitted, form, regCalls, regRouter,
                 openToasts, nextId, uploadedUrls>>
  /\ UNCHANGED loginVars

-----------------------------------------------------------------------------
(* RegisterForm                                                            *)

\* useForm defaultValues
DefaultValues ==
  [ fullName |-> "", gradYear |-> 1968, branch |-> "", email |-> "",
    mobile |-> "", organisation |-> "", designation |-> "", password |-> "",
    role |-> "alumni", proofPicture |-> Str(""), location |-> "" ]

\* const years = Array.from({ length: 2030 - 1964 + 1 }, (_, i) => 1964 + i)
FirstYear == 1964
LastYear  == 2030
\* <Input type="tel" maxLength={10}>, placeholder "Min 8 characters"
MobileLen == 10
MinPasswordLen == 8

\* The values of the branch <SelectItem>s.
Branches == {"Cse", "Et&t", "Mech", "Civil", "Elec", "Mining", "It"}

\* Sample addresses with a local part, an @ and a domain.
WellFormedEmails == {"asha@gec.ac.in", "ravi@example.com"}

\* userSchema (@/lib/zod), as the data model describes RegistrationProfile.
userSchema(d) ==
  /\ d.fullName # ""
  /\ d.gradYear \in FirstYear..LastYear
  /\ d.branch \in Branches
  /\ d.email \in WellFormedEmails
  /\ Len(d.mobile) = MobileLen
  /\ d.organisation # ""
  /\ d.designation # ""
  /\ Len(d.password) >= MinPasswordLen
  /\ d.role = "alumni"
  /\ d.location # ""

\* What the user can have typed into the form.
Profiles ==
  { DefaultValues,
    [ DefaultValues EXCEPT !.fullName = "Asha Verma", !.gradYear = 2012,
        !.branch = "Cse", !.email = "asha@gec.ac.in", !.mobile = "9876543210",
        !.organisation = "Acme", !.designation = "Engineer",
        !.password = "s3cretpass", !.location = "Bilaspur, Chhattisgarh" ],
    [ DefaultValues EXCEPT !.fullName = "Ravi Rao", !.gradYear = 1999,
        !.branch = "Mech", !.email = "ravi@example.com", !.mobile = "98765",
        !.organisation = "Initech", !.designation = "Manager",
        !.password = "short", !.location = "Raipur" ] }

\* The field inputs' onChange handlers, taken together.
regChange(d) ==
  /\ RegOnPage
  /\ form # d
  /\ form' = d
  /\ toasts' = <<>>
  /\ event' = [op |-> "regChange"]
  /\ onUploadedArgs' = <<>>
  /\ UNCHANGED <<submitted, proofUrl, regCalls, regRouter, openToasts, nextId,
                 uploadedUrls>>
  /\ UNCHANGED uploadVars
  /\ UNCHANGED loginVars

\* <Button type="submit" disabled={submitted || !proofUrl || loadingUpload}>
SubmitDisabled == submitted \/ ~Truthy(proofUrl) \/ loadingUpload

\* The body of the POST: { ...data, proofPicture: proofUrl, location: data.location }
RegPayload(data) ==
  [ data EXCEPT !.proofPicture = proofUrl, !.location = data.location ]

\* regOnSubmit without the check of proofUrl.
regOnSubmit_NoGate(data, via) ==
  /\ nextId < MaxCalls
  /\ toasts' = <<Toast("loading", "Registering...")>>
  /\ openToasts' = openToasts \cup {nextId}
  /\ nextId' = nextId + 1
  /\ submitted' = TRUE
  /\ regCalls' = regCalls \cup
       { [id |-> nextId, url |-> "/api/auth", body |-> RegPayload(data),
          loading |-> nextId] }
  /\ event' = [op |-> "onSubmit", via |-> via, sent |-> TRUE]

\* onSubmit up to its await.
regOnSubmit(data, via) ==
  IF ~Truthy(proofUrl)
    THEN /\ toasts' = <<Toast("error",
                "Please upload your marksheet/TC/Degree before submitting.")>>
         /\ event' = [op |-> "onSubmit", via |-> via, sent |-> FALSE]
         /\ UNCHANGED <<submitted, regCalls, openToasts, nextId>>
    ELSE /\ nextId < MaxCalls
         /\ toasts' = <<Toast("loading", "Registering...")>>
         /\ openToasts' = openToasts \cup {nextId}
         /\ nextId' = nextId + 1
         /\ submitted' = TRUE
         /\ regCalls' = regCalls \cup
              { [id |-> nextId, url |-> "/api/auth", body |-> RegPayload(data),
                 loading |-> nextId] }
         /\ event' = [op |-> "onSubmit", via |-> via, sent |-> TRUE]

\* form.handleSubmit(onSubmit): the resolver validates the values, and
\* onSubmit runs only when they pass.
regHandleSubmit(via) ==
  /\ RegOnPage
  /\ IF userSchema(form)
       THEN regOnSubmit(form, via)
       ELSE /\ toasts' = <<>>
            /\ event' = [op |-> "handleSubmit", via |-> via, valid |-> FALSE]
            /\ UNCHANGED <<submitted, regCalls, openToasts, nextId>>
  /\ onUploadedArgs' = <<>>
  /\ UNCHANGED <<proofUrl, form, regRouter, uploadedUrls>>
  /\ UNCHANGED uploadVars
  /\ UNCHANGED loginVars

\* A click on the submit button, which does nothing while it is disabled.
regClickSubmit == ~SubmitDisabled /\ regHandleSubmit("button")

\* A submit event that reaches <form onSubmit=...> without the button.
regSubmitEvent == regHandleSubmit("form")

\* How the awaited axios.post settles.
Resolved(status) == [kind |-> "resolved", status |-> status]
\* isAxiosError(error); response is undefined when no response was received.
AxiosError(response) == [kind |-> "axios", response |-> response]
OtherError == [kind |-> "other"]
Response(status, data) == [t |-> "object", status |-> status, data |-> data]
Body(message) == [t |-> "object", message |-> message]

RegOutcomes ==
  { Resolved(200), Resolved(201),
    AxiosError(Undefined),
    AxiosError(Response(409, Body(Str("Email exists")))),
    AxiosError(Response(400, Body(Str("")))),
    AxiosError(Response(500, Body(Undefined))),
    AxiosError(Response(502, Str("Bad Gateway"))),
    AxiosError(Response(500, Null)),
    OtherError }

\* error.response?.data.message: the value, or the TypeError of reading a
\* property of null or undefined.
ResponseMessage(error) ==
  IF ~Truthy(error.response) THEN [threw |-> FALSE, value |-> Undefined]
  ELSE LET data == error.response.data IN
    IF data.t \in {"null", "undefined"} THEN [threw |-> TRUE, value |-> Undefined]
    ELSE IF data.t = "object" THEN [threw |-> FALSE, value |-> data.message]
    ELSE [threw |-> FALSE, value |-> Undefined]

\* regThen with setProofUrl(null) left out.
regThen_KeepProofUrl(c, o) ==
  /\ IF o.status = 200
       THEN /\ openToasts' = openToasts \ {c.loading}
            /\ toasts' = <<Toast("success", "Registration completed!")>>
            /\ regRouter' = Str("/login")
       ELSE /\ toasts' = <<>>
            /\ UNCHANGED <<openToasts, regRouter>>
  /\ form' = DefaultValues
  /\ UNCHANGED proofUrl

\* The rest of the try block, once the POST has resolved with a response.
regThen(c, o) ==
  /\ IF o.status = 200
       THEN /\ openToasts' = openToasts \ {c.loading}
            /\ toasts' = <<Toast("success", "Registration completed!")>>
            /\ regRouter' = Str("/login")
       ELSE /\ toasts' = <<>>
            /\ UNCHANGED <<openToasts, regRouter>>
  /\ form' = DefaultValues
  /\ proofUrl' = Null

\* The catch block, once the POST has been rejected.  When reading the
\* message throws, the catch block ends there.
regCatch(c, o) ==
  /\ openToasts' = openToasts \ {c.loading}
  /\ IF o.kind = "axios"
       THEN LET m == ResponseMessage(o) IN
            toasts' = IF m.threw THEN <<>>
                      ELSE IF Truthy(m.value)
                        THEN <<Toast("error", m.value.v)>>
                        ELSE <<Toast("error", "Registration failed")>>
       ELSE toasts' = <<Toast("error", "Something went wrong!")>>
  /\ UNCHANGED <<form, proofUrl, regRouter>>

\* regFinally as if setSubmitted(false) ended the try block instead: it is
\* skipped when the POST is rejected.
regFinally_OnlyOnSuccess ==
  IF event'.outcome.kind = "resolved" THEN submitted' = FALSE ELSE UNCHANGED submitted

\* finally { setSubmitted(false) }
regFinally == submitted' = FALSE

\* onSubmit from its await on.
regSettle(c, o) ==
  /\ c \in regCalls
  /\ regCalls' = regCalls \ {c}
  /\ event' = [op |-> "onSubmit.settled", call |-> c, outcome |-> o]
  /\ IF o.kind = "resolved" THEN regThen(c, o) ELSE regCatch(c, o)
  /\ regFinally
  /\ onUploadedArgs' = <<>>
  /\ UNCHANGED <<nextId, uploadedUrls>>
  /\ UNCHANGED uploadVars
  /\ UNCHANGED loginVars

-----------------------------------------------------------------------------
(* LoginForm                                                               *)

\* useForm defaultValues
LoginDefaults == [email |-> "", password |-> "", role |-> "alumni"]

\* signinSchema (@/lib/zod), as the data model describes LoginCredentials.
signinSchema(d) ==
  /\ d.email \in WellFormedEmails
  /\ d.password # ""

\* What the form can hold: LoginFormData allows the role "admin".
Credentials ==
  [ email : {"", "asha@gec.ac.in"}, password : {"", "s3cretpass"},
    role : {"alumni", "admin"} ]

LoginOnPage == loginRouter = Null

loginChange(d) ==
  /\ LoginOnPage
  /\ loginForm # d
  /\ loginForm' = d
  /\ toasts' = <<>>
  /\ event' = [op |-> "loginChange"]
  /\ onUploadedArgs' = <<>>
  /\ UNCHANGED <<loginCalls, loginRouter, openToasts, nextId, uploadedUrls>>
  /\ UNCHANGED <<submitted, proofUrl, form, regCalls, regRouter>>
  /\ UNCHANGED uploadVars

\* SignInOptions with the spread written last: { role: "alumni", redirect: false, ...data }
SignInOptions_SpreadLast(data) ==
  [ email |-> data.email, password |-> data.password, role |-> data.role,
    redirect |-> FALSE ]

\* The options of signIn("credentials", { ...data, role: "alumni", redirect: false })
SignInOptions(data) ==
  [ email |-> data.email, password |-> data.password, role |-> "alumni",
    redirect |-> FALSE ]

\* onSubmit up to its await.
loginOnSubmit(data) ==
  /\ nextId < MaxCalls
  /\ toasts' = <<Toast("loading", "Signing in...")>>
  /\ openToasts' = openToasts \cup {nextId}
  /\ nextId' = nextId + 1
  /\ loginCalls' = loginCalls \cup
       { [id |-> nextId, provider |-> "credentials",
          options |-> SignInOptions(data), loading |-> nextId] }
  /\ event' = [op |-> "login.onSubmit", data |-> data]

\* loginHandleSubmit as <form onSubmit={onSubmit}>: no resolver in between.
loginHandleSubmit_NoResolver ==
  /\ LoginOnPage
  /\ loginOnSubmit(loginForm)
  /\ onUploadedArgs' = <<>>
  /\ UNCHANGED <<loginForm, loginRouter, uploadedUrls>>
  /\ UNCHANGED <<submitted, proofUrl, form, regCalls, regRouter>>
  /\ UNCHANGED uploadVars

\* form.handleSubmit(onSubmit) behind the Sign In button, which carries no
\* disabled attribute.
loginHandleSubmit ==
  /\ LoginOnPage
  /\ IF signinSchema(loginForm)
       THEN loginOnSubmit(loginForm)
       ELSE /\ toasts' = <<>>
            /\ event' = [op |-> "login.handleSubmit", valid |-> FALSE]
            /\ UNCHANGED <<loginCalls, openToasts, nextId>>
  /\ onUploadedArgs' = <<>>
  /\ UNCHANGED <<loginForm, loginRouter, uploadedUrls>>
  /\ UNCHANGED <<submitted, proofUrl, form, regCalls, regRouter>>
  /\ UNCHANGED uploadVars

\* How the awaited signIn settles: with a result, with nothing, or by throwing.
SignInResult(ok) == [t |-> "object", ok |-> ok]
Thrown == [t |-> "thrown"]
LoginOutcomes == { SignInResult(TRUE), SignInResult(FALSE), Undefined, Thrown }

\* res?.ok
ResOk(res) == IF res.t \in {"null", "undefined"} THEN FALSE ELSE res.ok

\* onSubmit from its await on.
loginSettle(c, o) ==
  /\ c \in loginCalls
  /\ loginCalls' = loginCalls \ {c}
  /\ event' = [op |-> "login.onSubmit.settled", call |-> c, outcome |-> o]
  /\ IF o = Thrown
       THEN /\ toasts' = <<Toast("error", "Sign in failed")>>
            /\ UNCHANGED <<openToasts, loginRouter>>
       ELSE /\ openToasts' = openToasts \ {c.loading}
            /\ IF ResOk(o)
                 THEN /\ toasts' = <<Toast("success", "Sign in successfull")>>
                      /\ loginRouter' = Str("/profile")
                 ELSE /\ toasts' = <<Toast("error", "Invalid username or password")>>
                      /\ UNCHANGED loginRouter
  /\ onUploadedArgs' = <<>>
  /\ UNCHANGED <<loginForm, nextId, uploadedUrls>>
  /\ UNCHANGED <<submitted, proofUrl, form, regCalls, regRouter>>
  /\ UNCHANGED uploadVars

-----------------------------------------------------------------------------
(* Specifications                                                          *)

Init ==
  /\ filePreviewUrl = Null
  /\ type = Undefined
  /\ uploading = FALSE
  /\ submitted = FALSE
  /\ proofUrl = Null
  /\ loadingUpload = FALSE
  /\ form = DefaultValues
  /\ regCalls = {}
  /\ regRouter = Null
  /\ loginForm = LoginDefaults
  /\ loginCalls = {}
  /\ loginRouter = Null
  /\ toasts = <<>>
  /\ onUploadedArgs = <<>>
  /\ openToasts = {}
  /\ nextId = 0
  /\ uploadedUrls = {}
  /\ event = [op |-> "mount"]

\* The upload sub-controller, over every response shape.
NextUpload ==
  \/ onUploadBegin
  \/ \E res \in UploadResponses : handleClientComplete(res)
  \/ handleError
  \/ removeFile

NextRegister ==
  \/ onUploadBegin
  \/ \E res \in SampleResponses : handleClientComplete(res)
  \/ handleError
  \/ removeFile
  \/ \E d \in Profiles : regChange(d)
  \/ regClickSubmit
  \/ regSubmitEvent
  \/ \E c \in regCalls, o \in RegOutcomes : regSettle(c, o)

NextLogin ==
  \/ \E d \in Credentials : loginChange(d)
  \/ loginHandleSubmit
  \/ \E c \in loginCalls, o \in LoginOutcomes : loginSettle(c, o)

Next == NextRegister \/ NextLogin

\* The upload sub-controller alone, the registration screen, the login
\* screen, and both screens.
SpecUpload   == Init /\ [][NextUpload]_vars
SpecRegister == Init /\ [][NextRegister]_vars
SpecLogin    == Init /\ [][NextLogin]_vars
Spec         == Init /\ [][Next]_vars

-----------------------------------------------------------------------------
(* Properties                                                              *)

RegSettled(o) == event.op = "onSubmit.settled" /\ event.outcome = o

\* C1: a POST to /api/auth is issued only while proofUrl is non-null, its
\* proofPicture is that URL, and every proofPicture in flight was reported
\* by an earlier successful upload; when onSubmit runs with a null proofUrl
\* no call is issued and one error notification is shown.
C1_SubmissionGate ==
  /\ [](\A c \in regCalls :
          Truthy(c.body.proofPicture) /\ c.body.proofPicture \in uploadedUrls)
  /\ [][ /\ \A c \in regCalls' \ regCalls :
              /\ Truthy(proofUrl)
              /\ c.url = "/api/auth"
              /\ c.body.proofPicture = proofUrl
         /\ (event'.op = "onSubmit" /\ ~Truthy(proofUrl)) =>
              /\ regCalls' = regCalls
              /\ Len(toasts') = 1
              /\ toasts'[1].kind = "error" ]_vars

\* A POST is in flight, the file has since been removed, and a further
\* submit has just been refused.
C1_Witness ==
  /\ regCalls # {}
  /\ event.op = "onSubmit"
  /\ ~event.sent
  /\ ~Truthy(proofUrl)

\* C2: when the POST resolves with status 200, the success notification is
\* shown, the router is sent to /login, the form is back at its defaults
\* and proofUrl is null.
C2_Status200 ==
  [][ (event'.op = "onSubmit.settled" /\ event'.outcome = Resolved(200)) =>
        /\ toasts' = <<Toast("success", "Registration completed!")>>
        /\ regRouter' = Str("/login")
        /\ form' = DefaultValues
        /\ proofUrl' = Null ]_vars

C2_Witness ==
  /\ RegSettled(Resolved(200))
  /\ Truthy(event.call.body.proofPicture)
  /\ event.call.body.fullName # ""
  /\ regRouter = Str("/login")
  /\ form = DefaultValues
  /\ proofUrl = Null

\* The notification text the claim gives for a rejected POST.
C3_Text(o) ==
  IF o.kind = "axios"
    THEN IF /\ Truthy(o.response)
            /\ o.response.data.t = "object"
            /\ Truthy(o.response.data.message)
           THEN o.response.data.message.v
           ELSE "Registration failed"
    ELSE "Something went wrong!"

\* C3: when the POST is rejected, exactly one error notification is shown,
\* with the response body's message, else "Registration failed" for an HTTP
\* error, else "Something went wrong!", and the router is not used.
C3_FailureNotification ==
  [][ (event'.op = "onSubmit.settled" /\ event'.outcome.kind # "resolved") =>
        /\ toasts' = <<Toast("error", C3_Text(event'.outcome))>>
        /\ regRouter' = regRouter ]_vars

\* C4: submitted becomes true only in the step that passes the proofUrl
\* check and sends the POST, and it is false after every step in which
\* onSubmit finishes, whatever the outcome.
C4_SubmittedFlag ==
  /\ [][ /\ (submitted' /\ ~submitted) =>
              /\ event'.op = "onSubmit"
              /\ event'.sent
              /\ Truthy(proofUrl)
              /\ regCalls' # regCalls
         /\ (event'.op = "onSubmit" /\ event'.sent) => submitted'
         /\ event'.op = "onSubmit.settled" => ~submitted' ]_vars
  /\ [](regCalls = {} => ~submitted)

\* onSubmit has finished after the catch block itself threw, and the flag
\* is clear.
C4_Witness ==
  /\ RegSettled(AxiosError(Response(500, Null)))
  /\ regCalls = {}
  /\ ~submitted

\* C5: each login submit that reaches onSubmit makes one signIn call, with
\* the role "alumni" and redirect false; the continuation makes no further
\* call; an ok result gives a success notification and /profile, and a
\* result that is missing or not ok, or a throw, gives one error
\* notification and no navigation.
C5_LoginOutcome ==
  [][ /\ event'.op = "login.onSubmit" =>
           \E c \in loginCalls' \ loginCalls :
             /\ loginCalls' = loginCalls \cup {c}
             /\ c.provider = "credentials"
             /\ c.options.email = event'.data.email
             /\ c.options.password = event'.data.password
             /\ c.options.role = "alumni"
             /\ c.options.redirect = FALSE
      /\ event'.op = "login.onSubmit.settled" =>
           /\ loginCalls' = loginCalls \ {event'.call}
           /\ IF event'.outcome = SignInResult(TRUE)
                THEN /\ toasts' = <<Toast("success", "Sign in successfull")>>
                     /\ loginRouter' = Str("/profile")
                ELSE /\ Len(toasts') = 1
                     /\ toasts'[1].kind = "error"
                     /\ loginRouter' = loginRouter ]_vars

\* A submit made with the role "admin" in the form has been answered ok.
C5_Witness ==
  /\ event.op = "login.onSubmit.settled"
  /\ event.outcome = SignInResult(TRUE)
  /\ loginForm.role = "admin"
  /\ event.call.options.role = "alumni"
  /\ loginRouter = Str("/profile")

\* C6: with values that fail signinSchema, onSubmit does not run and signIn
\* is not called.
C6_InvalidNeverSent ==
  [][ /\ ~signinSchema(loginForm) =>
           /\ event'.op # "login.onSubmit"
           /\ loginCalls' \subseteq loginCalls
           /\ openToasts' \subseteq openToasts
      /\ \A c \in loginCalls' \ loginCalls :
           signinSchema([email |-> c.options.email, password |-> c.options.password,
                         role |-> c.options.role]) ]_vars

\* A submit of typed values that fail the schema has been turned down.
C6_Witness ==
  /\ event.op = "login.handleSubmit"
  /\ ~event.valid
  /\ loginForm # LoginDefaults
  /\ ~signinSchema(loginForm)
  /\ loginCalls = {}

\* C7: each controller has at most one submission call in flight.
C7_SingleInFlight ==
  /\ Cardinality(loginCalls) <= 1
  /\ Cardinality(regCalls) <= 1

\* The URL the claim gives for the first element of a response: the
\* stringified result of url when it is callable, else ufsUrl when it is a
\* string, else url when it is a string; after a throw, the string ufsUrl
\* and then the string url.
C8_Url(first) ==
  LET strings ==
        IF first.ufsUrl.t = "string" THEN first.ufsUrl
        ELSE IF first.url.t = "string" THEN first.url
        ELSE Undefined
  IN  IF first.url.t = "function"
        THEN IF first.url.throws
               THEN strings
               ELSE String(first.url.ret)
        ELSE strings

\* The response is an array whose first element is an object.
C8_HasFirst(res) ==
  /\ res.t = "object"
  /\ res.isArray
  /\ Len(res.items) > 0
  /\ res.items[1].t = "object"

C8_Example ==
  Array(<<File(Undefined, Str("https://x/file.png"), Str(ImagePng))>>)

\* C8: for a non-empty array response the URL is taken from the first
\* element in the order of C8_Url; when it is non-empty it becomes the
\* preview URL, the MIME type is stored with it, the same URL goes to the
\* parent and a success notification is shown.  The response
\* [{ufsUrl: "https://x/file.png", type: "image/png"}] reports that URL and
\* selects the image preview.
C8_UrlExtraction ==
  [][ (event'.op = "handleClientComplete" /\ C8_HasFirst(event'.res)) =>
        LET first == event'.res.items[1]
            url   == C8_Url(first)
        IN  /\ (url.t = "string" /\ url.v # "") =>
                 /\ filePreviewUrl' = url
                 /\ type' = (IF first.type.t = "string" THEN first.type ELSE Undefined)
                 /\ onUploadedArgs' = <<url>>
                 /\ proofUrl' = url
                 /\ toasts' = <<Toast("success", "File uploaded successfully!")>>
            /\ event'.res = C8_Example =>
                 /\ onUploadedArgs' = <<Str("https://x/file.png")>>
                 /\ Preview' = "image" ]_vars

\* The response of the example has been handled.
C8_Witness ==
  /\ event.op = "handleClientComplete"
  /\ event.res = C8_Example
  /\ proofUrl = Str("https://x/file.png")
  /\ Preview = "image"

\* C9: a failed upload (a response that is undefined, not an array, an
\* empty array or without a usable URL in its first element, or a transport
\* error) reports null to the parent and shows one error notification,
\* with loadingUpload false and no preview URL stored.
C9_FailedUpload ==
  [][ ( \/ event'.op = "handleError"
        \/ /\ event'.op = "handleClientComplete"
           /\ \/ ~C8_HasFirst(event'.res)
              \/ ~Truthy(C8_Url(event'.res.items[1])) ) =>
        /\ onUploadedArgs' = <<Null>>
        /\ proofUrl' = Null
        /\ Len(toasts') = 1
        /\ toasts'[1].kind = "error"
        /\ ~loadingUpload'
        /\ filePreviewUrl' = Null ]_vars

\* A response whose first element has no usable URL has been handled.
C9_Witness ==
  /\ event.op = "handleClientComplete"
  /\ C8_HasFirst(event.res)
  /\ ~Truthy(C8_Url(event.res.items[1]))
  /\ onUploadedArgs = <<Null>>
  /\ toasts = <<Toast("error", "Upload failed: no file URL returned.")>>

\* The step is a completion that stored a URL.
C10_UploadSucceeded ==
  /\ event'.op = "handleClientComplete"
  /\ toasts' = <<Toast("success", "File uploaded successfully!")>>

\* C10: removeFile sets the preview URL to null and the MIME type to
\* undefined and reports null, so that proofUrl is null and the submit
\* button disabled; it leaves the form values, submitted and loadingUpload
\* as they are; and while proofUrl is null the button becomes enabled only
\* by a step in which an upload succeeds.
C10_RemoveFile ==
  [][ /\ event'.op = "removeFile" =>
           /\ filePreviewUrl' = Null
           /\ type' = Undefined
           /\ onUploadedArgs' = <<Null>>
           /\ proofUrl' = Null
           /\ SubmitDisabled'
           /\ UNCHANGED <<form, submitted, loadingUpload>>
      /\ (~Truthy(proofUrl) /\ ~SubmitDisabled') => C10_UploadSucceeded ]_vars

\* A file has been removed while the form was filled in and a POST was in
\* flight.
C10_Witness ==
  /\ event.op = "removeFile"
  /\ form # DefaultValues
  /\ submitted
  /\ proofUrl = Null
  /\ SubmitDisabled

\* The state of the upload sub-controller as loadingUpload and
\* filePreviewUrl give it.  Neither records a failure: a failed upload ends
\* with both clear, which is the idle state.
C11_State ==
  IF loadingUpload
    THEN IF Truthy(filePreviewUrl) THEN "uploadingOverPreview" ELSE "uploading"
    ELSE IF Truthy(filePreviewUrl) THEN "uploaded" ELSE "idle"

\* The step is an upload that ended without a URL.
C11_UploadFailed ==
  /\ event'.op \in {"handleClientComplete", "handleError"}
  /\ Len(toasts') = 1
  /\ toasts'[1].kind = "error"
  /\ onUploadedArgs' = <<Null>>

\* C11: the state of the upload sub-controller changes only by an upload
\* beginning from idle, by a completion with a URL from uploading to
\* uploaded, by a completion without a URL or a transport error from
\* uploading to failed (loadingUpload false, no preview URL), and by
\* removeFile from uploaded to idle; no upload begins while a file is
\* uploaded, and loadingUpload is true only while an upload is under way
\* and no preview URL is stored.
C11_UploadStates ==
  /\ [][ /\ C11_State' # C11_State =>
              \/ /\ C11_State = "idle" /\ C11_State' = "uploading"
                 /\ event'.op = "onUploadBegin"
              \/ /\ C11_State = "uploading" /\ C11_State' = "uploaded"
                 /\ C10_UploadSucceeded
              \/ /\ C11_State = "uploading" /\ C11_State' = "idle"
                 /\ C11_UploadFailed
              \/ /\ C11_State = "uploaded" /\ C11_State' = "idle"
                 /\ event'.op = "removeFile"
         /\ event'.op = "onUploadBegin" => C11_State = "idle"
         /\ C11_UploadFailed => C11_State = "uploading" /\ C11_State' = "idle"
         /\ C10_UploadSucceeded => C11_State = "uploading" /\ C11_State' = "uploaded"
       ]_vars
  /\ [](loadingUpload <=> uploading)
  /\ [](loadingUpload => C11_State = "uploading")

\* A second upload is under way, after a first file was uploaded and
\* removed.
C11_Witness ==
  /\ C11_State = "uploading"
  /\ uploadedUrls # {}
  /\ event.op = "onUploadBegin"

\* C12: the parent's proofUrl and the sub-controller's filePreviewUrl are
\* both null or the same URL.
C12_Agreement ==
  \/ proofUrl = Null /\ filePreviewUrl = Null
  \/ Truthy(proofUrl) /\ proofUrl = filePreviewUrl

\* C13: when a submit handler finishes, the loading notification it opened
\* has been dismissed, on every path of both handlers.
C13_LoadingDismissed ==
  [][ event'.op \in {"onSubmit.settled", "login.onSubmit.settled"} =>
        event'.call.loading \notin openToasts' ]_vars

====
